---- MODULE Spec2Model ----
(***************************************************************************)
(* A model of QAgent (src/src/q_agent.py): the tabular Q-learning agent,   *)
(* its value table, epsilon-greedy policy, Bellman update, epsilon         *)
(* schedule, persistence and statistics.                                   *)
(*                                                                         *)
(* Numbers.  Python floats are modelled as fixed-point numbers: an integer *)
(* n stands for n / Unit.  Sums and differences are exact; a product is    *)
(* rounded to the nearest grid point, ties to even, as IEEE-754 rounds.    *)
(* (The subnormal floats are exactly such a uniform grid.)                 *)
(*                                                                         *)
(* Randomness.  np.random.random() and np.random.choice() are inputs of    *)
(* the actions: every sample and every index is a possible outcome.        *)
(***************************************************************************)
EXTENDS Integers, Sequences, FiniteSets, TLC

\* Grid points per 1.0.
Unit == 1000

\* The bound of the model: update() calls in one run.
MaxUpdates == 2

States == {"S0", "S1"}
Actions == {"A", "B"}
\* What a step of the environment yields: <<reward, done>>.
Outcomes == {<<10 * Unit, TRUE>>, <<-Unit, FALSE>>}
\* Samples of np.random.random(), which lies in [0, 1).
RandomSamples == {0, Unit - 1}
\* The draws of np.random.choice: draw k picks an index of the list.
RandomDraws == 1..Cardinality(Actions)

\* Python's None.
None == "None"

\* The attributes __init__ and load assign, in the order of assignment.
AttrOrder ==
    <<"q_table", "learning_rate", "discount_factor",
      "epsilon", "epsilon_decay", "epsilon_min">>
AllAttrs == {AttrOrder[i] : i \in 1..Len(AttrOrder)}

VARIABLES
    attrs,            \* the attributes the object has (the keys of its __dict__)
    learning_rate,
    discount_factor,
    epsilon,
    epsilon_decay,
    epsilon_min,
    q_table,          \* state -> (action -> value), both partial
    file,             \* the files on disk: <<>>, or <<blob>> once saved
    updates,          \* update() calls made so far (bounded by MaxUpdates)
    last              \* the last call: its name, what it returned or raised

vars ==
    <<attrs, learning_rate, discount_factor, epsilon, epsilon_decay,
      epsilon_min, q_table, file, updates, last>>

----------------------------------------------------------------------------
(* Python values *)

\* {}
EmptyDict == [k \in {} |-> 0]

\* d[k] = v
SetItem(d, k, v) == [x \in (DOMAIN d) \cup {k} |-> IF x = k THEN v ELSE d[x]]

\* max(values) of a non-empty list
RECURSIVE PyMaxFrom(_, _, _)
PyMaxFrom(values, i, best) ==
    IF i > Len(values) THEN best
    ELSE PyMaxFrom(values, i + 1, IF values[i] > best THEN values[i] ELSE best)

PyMax(values) == PyMaxFrom(values, 2, values[1])

\* a * b on floats: the exact product, rounded to the nearest grid point,
\* ties to even.
FMul(a, b) ==
    LET p == a * b
        q == p \div Unit
        r == p % Unit
    IN  IF 2 * r < Unit THEN q
        ELSE IF 2 * r > Unit THEN q + 1
        ELSE IF q % 2 = 0 THEN q ELSE q + 1

\* The object: its attributes and their values.
Self ==
    [attrs |-> attrs,
     q_table |-> q_table,
     learning_rate |-> learning_rate,
     discount_factor |-> discount_factor,
     epsilon |-> epsilon,
     epsilon_decay |-> epsilon_decay,
     epsilon_min |-> epsilon_min]

\* self.<name> = value
SetAttr(self, name, value) ==
    [self EXCEPT ![name] = value, !.attrs = @ \cup {name}]

\* The outcome of a call: the object after it, and what it returned or raised.
Return(self, value) == [self |-> self, ret |-> value, error |-> None]
Raise(self, exception) == [self |-> self, ret |-> None, error |-> exception]

----------------------------------------------------------------------------
(* QAgent.__init__ *)

\* The check of the learning rate with 0 let through.
valid_learning_rate_closed(lr) == 0 <= lr /\ lr <= Unit

valid_learning_rate(lr) == 0 < lr /\ lr <= Unit
valid_discount_factor(g) == 0 <= g /\ g <= Unit
valid_epsilon(e) == 0 <= e /\ e <= Unit
valid_epsilon_min(m) == 0 <= m /\ m <= Unit
valid_epsilon_decay(d) == ~(d <= 0)
valid_epsilon_floor(e, m) == ~(e < m)

__init__(self, lr, g, e, d, m) ==
    IF ~valid_learning_rate(lr) THEN Raise(self, "ValueError")
    ELSE IF ~valid_discount_factor(g) THEN Raise(self, "ValueError")
    ELSE IF ~valid_epsilon(e) THEN Raise(self, "ValueError")
    ELSE IF ~valid_epsilon_min(m) THEN Raise(self, "ValueError")
    ELSE IF ~valid_epsilon_decay(d) THEN Raise(self, "ValueError")
    ELSE IF ~valid_epsilon_floor(e, m) THEN Raise(self, "ValueError")
    ELSE
        LET s1 == SetAttr(self, "learning_rate", lr)
            s2 == SetAttr(s1, "discount_factor", g)
            s3 == SetAttr(s2, "epsilon", e)
            s4 == SetAttr(s3, "epsilon_decay", d)
            s5 == SetAttr(s4, "epsilon_min", m)
            s6 == SetAttr(s5, "q_table", EmptyDict)
        IN  Return(s6, None)

----------------------------------------------------------------------------
(* The value table *)

\* A read that stores nothing.
get_q_value_pure(self, state, action) ==
    Return(self,
           IF state \in DOMAIN self.q_table
              /\ action \in DOMAIN self.q_table[state]
           THEN self.q_table[state][action]
           ELSE 0)

get_q_value(self, state, action) ==
    LET t1 == IF state \notin DOMAIN self.q_table
              THEN SetItem(self.q_table, state, EmptyDict)
              ELSE self.q_table
        t2 == IF action \notin DOMAIN t1[state]
              THEN SetItem(t1, state, SetItem(t1[state], action, 0))
              ELSE t1
    IN  Return([self EXCEPT !.q_table = t2], t2[state][action])

\* [self.get_q_value(state, action) for action in possible_actions]:
\* the object after the calls, and the list of the values.
RECURSIVE q_values_from(_, _, _, _, _)
q_values_from(self, state, possible_actions, i, values) ==
    IF i > Len(possible_actions) THEN Return(self, values)
    ELSE LET r == get_q_value(self, state, possible_actions[i])
         IN  q_values_from(r.self, state, possible_actions, i + 1,
                           Append(values, r.ret))

q_values_list(self, state, possible_actions) ==
    q_values_from(self, state, possible_actions, 1, <<>>)

get_max_q_value(self, state, possible_actions) ==
    IF possible_actions = <<>> THEN Return(self, 0)
    ELSE LET r == q_values_list(self, state, possible_actions)
         IN  Return(r.self, PyMax(r.ret))

----------------------------------------------------------------------------
(* The update rule *)

\* A target that looks at the next state of a finished episode too.
target_q_probing(self, reward, next_state, possible_next_actions, done) ==
    LET m == get_max_q_value(self, next_state, possible_next_actions)
    IN  Return(m.self,
               IF done THEN reward
               ELSE reward + FMul(m.self.discount_factor, m.ret))

\* The target of an update: the object after computing it, and the target.
target_q(self, reward, next_state, possible_next_actions, done) ==
    IF done THEN Return(self, reward)
    ELSE LET m == get_max_q_value(self, next_state, possible_next_actions)
         IN  Return(m.self, reward + FMul(m.self.discount_factor, m.ret))

\* A step towards the target that forgets the current value.
new_q_without_current(self, current_q, target) ==
    current_q + FMul(self.learning_rate, target)

new_q(self, current_q, target) ==
    current_q + FMul(self.learning_rate, target - current_q)

\* A store that replaces the state's dict by one of the single action.
store_q_overwriting(self, state, action, value) ==
    [self EXCEPT !.q_table =
        SetItem(self.q_table, state, SetItem(EmptyDict, action, value))]

\* self.q_table[state][action] = value, the state's dict made when absent
store_q(self, state, action, value) ==
    LET t1 == IF state \notin DOMAIN self.q_table
              THEN SetItem(self.q_table, state, EmptyDict)
              ELSE self.q_table
    IN  [self EXCEPT !.q_table =
            SetItem(t1, state, SetItem(t1[state], action, value))]

update(self, state, action, reward, next_state, possible_next_actions, done) ==
    LET c == get_q_value(self, state, action)
        t == target_q(c.self, reward, next_state, possible_next_actions, done)
    IN  Return(store_q(t.self, state, action, new_q(t.self, c.ret, t.ret)),
               None)

----------------------------------------------------------------------------
(* The policy *)

\* np.random.choice(list) of a non-empty list, on draw k.
RandomChoice(list, k) == list[((k - 1) % Len(list)) + 1]

\* d[k] = v on a dict kept as its list of items, in insertion order.
DictSet(items, k, v) ==
    IF \E j \in 1..Len(items) : items[j][1] = k
    THEN [j \in 1..Len(items) |->
            IF items[j][1] = k THEN <<k, v>> ELSE items[j]]
    ELSE Append(items, <<k, v>>)

\* {keys[i]: values[i] for i in ...}: the items of the dict.
RECURSIVE DictFrom(_, _, _, _)
DictFrom(keys, values, i, items) ==
    IF i > Len(keys) THEN items
    ELSE DictFrom(keys, values, i + 1, DictSet(items, keys[i], values[i]))

\* [action for action, q in q_values.items() if q == max_q]
RECURSIVE best_actions_from(_, _, _, _)
best_actions_from(items, max_q, i, best) ==
    IF i > Len(items) THEN best
    ELSE best_actions_from(items, max_q, i + 1,
            IF items[i][2] = max_q THEN Append(best, items[i][1]) ELSE best)

\* The first of the best actions alone: no tie is broken at random.
best_actions_first(items, max_q) ==
    <<best_actions_from(items, max_q, 1, <<>>)[1]>>

best_actions(items, max_q) == best_actions_from(items, max_q, 1, <<>>)

get_best_action(self, state, possible_actions, k) ==
    IF possible_actions = <<>> THEN Return(self, None)
    ELSE LET r == q_values_list(self, state, possible_actions)
             q_values == DictFrom(possible_actions, r.ret, 1, <<>>)
             max_q == PyMax([i \in 1..Len(q_values) |-> q_values[i][2]])
         IN  Return(r.self, RandomChoice(best_actions(q_values, max_q), k))

\* Exploring on a sample equal to epsilon too.
explores_inclusive(u, eps) == u <= eps

\* u is the sample of np.random.random(), k the draw of np.random.choice.
explores(u, eps) == u < eps

choose_action(self, state, possible_actions, u, k) ==
    IF possible_actions = <<>> THEN Return(self, None)
    ELSE IF explores(u, self.epsilon)
         THEN Return(self, RandomChoice(possible_actions, k))
         ELSE get_best_action(self, state, possible_actions, k)

----------------------------------------------------------------------------
(* The epsilon schedule *)

\* A decay without the floor.
decayed_unfloored(eps, decay, floor) == FMul(eps, decay)

decayed(eps, decay, floor) ==
    LET e == FMul(eps, decay) IN IF floor >= e THEN floor ELSE e

decay_epsilon(self) ==
    Return([self EXCEPT !.epsilon =
                decayed(self.epsilon, self.epsilon_decay, self.epsilon_min)],
           None)

----------------------------------------------------------------------------
(* Persistence *)

\* agent_data, as save pickles it.
save(self) == [name \in AllAttrs |-> self[name]]

\* self.<name> = agent_data[<name>], one attribute after the other.
RECURSIVE load_from(_, _, _)
load_from(self, agent_data, i) ==
    IF i > Len(AttrOrder) THEN Return(self, None)
    ELSE IF AttrOrder[i] \notin DOMAIN agent_data THEN Raise(self, "KeyError")
    ELSE load_from(SetAttr(self, AttrOrder[i], agent_data[AttrOrder[i]]),
                   agent_data, i + 1)

\* found is what open() finds: <<>>, or <<agent_data>>.
load(self, found) ==
    IF found = <<>> THEN Raise(self, "FileNotFoundError")
    ELSE load_from(self, found[1], 1)

----------------------------------------------------------------------------
(* Statistics *)

\* A count of the states in place of the sum of the lengths.
sum_len_states(table, keys) == Cardinality(keys)

\* sum(len(actions) for actions in table.values()), over the states in keys
RECURSIVE sum_len(_, _)
sum_len(table, keys) ==
    IF keys = {} THEN 0
    ELSE LET s == CHOOSE x \in keys : TRUE
         IN  Cardinality(DOMAIN table[s]) + sum_len(table, keys \ {s})

get_stats(self) ==
    Return(self,
           [num_states_visited |-> Cardinality(DOMAIN self.q_table),
            total_state_action_pairs |->
                sum_len(self.q_table, DOMAIN self.q_table),
            current_epsilon |-> self.epsilon,
            learning_rate |-> self.learning_rate,
            discount_factor |-> self.discount_factor])

----------------------------------------------------------------------------
(* The state machine *)

NoCall == [op |-> "none", error |-> None]

Init ==
    /\ attrs = {}
    /\ learning_rate = 0
    /\ discount_factor = 0
    /\ epsilon = 0
    /\ epsilon_decay = 0
    /\ epsilon_min = 0
    /\ q_table = EmptyDict
    /\ file = <<>>
    /\ updates = 0
    /\ last = NoCall

\* The call op with outcome r.
Apply(op, r) ==
    /\ attrs' = r.self.attrs
    /\ learning_rate' = r.self.learning_rate
    /\ discount_factor' = r.self.discount_factor
    /\ epsilon' = r.self.epsilon
    /\ epsilon_decay' = r.self.epsilon_decay
    /\ epsilon_min' = r.self.epsilon_min
    /\ q_table' = r.self.q_table
    /\ last' = [op |-> op, error |-> r.error]

\* The object exists: its constructor returned.
Constructed == attrs = AllAttrs

\* The lists of possible actions: the environment's sets of legal actions,
\* in any order.
ActionLists ==
    {l \in UNION {[1..n -> Actions] : n \in 0..Cardinality(Actions)} :
        \A i, j \in 1..Len(l) : i # j => l[i] # l[j]}

\* The agents of the runs: the example's, a greedy one, and one that
\* __init__ rejects.
RunAgents ==
    {[lr |-> Unit \div 10, g |-> (95 * Unit) \div 100, e |-> Unit,
      d |-> Unit \div 2, m |-> Unit \div 2],
     [lr |-> Unit, g |-> Unit, e |-> 0, d |-> Unit \div 2, m |-> 0],
     [lr |-> 0, g |-> Unit, e |-> Unit, d |-> Unit, m |-> 0]}

\* The parameters at and around the edges of their domains.
EdgeAgents ==
    [lr : {0, Unit \div 10, Unit, Unit + 1},
     g : {-1, 0, Unit, Unit + 1},
     e : {-1, 0, Unit \div 2, Unit, Unit + 1},
     d : {-1, 0, 1, Unit \div 2, (995 * Unit) \div 1000, Unit},
     m : {-1, 0, 1, Unit \div 2, Unit, Unit + 1}]

\* agent = QAgent(...), once.
Construct(P) ==
    /\ last.op = "none"
    /\ \E p \in P : Apply("__init__", __init__(Self, p.lr, p.g, p.e, p.d, p.m))
    /\ UNCHANGED <<file, updates>>

Call_get_q_value ==
    /\ Constructed
    /\ \E state \in States, action \in Actions :
        Apply("get_q_value", get_q_value(Self, state, action))
    /\ UNCHANGED <<file, updates>>

Call_get_max_q_value ==
    /\ Constructed
    /\ \E state \in States, possible_actions \in ActionLists :
        Apply("get_max_q_value",
              get_max_q_value(Self, state, possible_actions))
    /\ UNCHANGED <<file, updates>>

Call_get_best_action ==
    /\ Constructed
    /\ \E state \in States, possible_actions \in ActionLists,
          k \in RandomDraws :
        Apply("get_best_action",
              get_best_action(Self, state, possible_actions, k))
    /\ UNCHANGED <<file, updates>>

Call_choose_action ==
    /\ Constructed
    /\ \E state \in States, possible_actions \in ActionLists,
          u \in RandomSamples, k \in RandomDraws :
        Apply("choose_action",
              choose_action(Self, state, possible_actions, u, k))
    /\ UNCHANGED <<file, updates>>

Call_update(S, A, L, O) ==
    /\ Constructed
    /\ updates < MaxUpdates
    /\ \E state \in S, action \in A, next_state \in S,
          possible_next_actions \in L, o \in O :
        Apply("update",
              update(Self, state, action, o[1], next_state,
                     possible_next_actions, o[2]))
    /\ updates' = updates + 1
    /\ UNCHANGED file

Call_decay_epsilon ==
    /\ Constructed
    /\ Apply("decay_epsilon", decay_epsilon(Self))
    /\ UNCHANGED <<file, updates>>

Call_get_stats ==
    /\ Constructed
    /\ Apply("get_stats", get_stats(Self))
    /\ UNCHANGED <<file, updates>>

Call_save ==
    /\ Constructed
    /\ file' = <<save(Self)>>
    /\ Apply("save", Return(Self, None))
    /\ UNCHANGED updates

\* What the file named may hold: nothing, the blob save wrote, or such a
\* blob with keys missing.
Found(files) ==
    IF files = <<>> THEN {<<>>}
    ELSE {<<[name \in AllAttrs \ missing |-> files[1][name]]>> :
            missing \in SUBSET AllAttrs}

Call_load ==
    /\ Constructed
    /\ \E found \in Found(file) : Apply("load", load(Self, found))
    /\ UNCHANGED <<file, updates>>

\* A run of the agent: every call but save and load.
Next ==
    \/ Construct(RunAgents)
    \/ Call_get_q_value
    \/ Call_get_max_q_value
    \/ Call_get_best_action
    \/ Call_choose_action
    \/ Call_update(States, Actions, ActionLists, Outcomes)
    \/ Call_decay_epsilon
    \/ Call_get_stats

Spec == Init /\ [][Next]_vars

\* Construction over the edges of the domains, and the epsilon schedule.
NextSchedule ==
    \/ Construct(EdgeAgents)
    \/ Call_decay_epsilon

SpecSchedule ==
    Init /\ [][NextSchedule]_vars /\ WF_vars(Call_decay_epsilon)

\* Saving and loading, between reads and terminal updates of one entry.
NextPersist ==
    \/ Construct(RunAgents)
    \/ Call_get_q_value
    \/ Call_update({"S0"}, {"A"}, {<<>>}, {<<10 * Unit, TRUE>>})
    \/ Call_decay_epsilon
    \/ Call_save
    \/ Call_load

SpecPersist == Init /\ [][NextPersist]_vars

----------------------------------------------------------------------------
(* What the properties speak of *)

\* The (state, action) leaves of a table.
Leaves(table) ==
    {<<s, a>> \in States \X Actions :
        s \in DOMAIN table /\ a \in DOMAIN table[s]}

\* The value of a pair, 0.0 when it is absent.
Lookup(table, s, a) ==
    IF <<s, a>> \in Leaves(table) THEN table[s][a] ELSE 0

Range(list) == {list[i] : i \in 1..Len(list)}

\* The greatest value of s over the actions, 0.0 when there is none.
MaxValue(table, s, actions) ==
    IF actions = {} THEN 0
    ELSE CHOOSE m \in {Lookup(table, s, a) : a \in actions} :
            \A a \in actions : Lookup(table, s, a) <= m

\* The parameters lie in their domains.
InDomain(lr, g, e, d, m) ==
    /\ 0 < lr /\ lr <= Unit
    /\ 0 <= g /\ g <= Unit
    /\ 0 <= e /\ e <= Unit
    /\ 0 <= m /\ m <= Unit
    /\ d > 0
    /\ e >= m

----------------------------------------------------------------------------
(* The properties *)

\* C1: after update(state, action, reward, next_state, legal_next_actions,
\* done) the value stored at (state, action) is
\* current + learning_rate * (target - current), where current is the value
\* of the pair before the call (0.0 when absent) and target is reward when
\* done, and otherwise reward + discount_factor * M, M being the greatest
\* value before the call over legal_next_actions in next_state (absent pairs
\* counting 0.0, M = 0.0 for no legal action).  With learning_rate 0.1,
\* reward 10.0, done and current 0.0 the result is 1.0.
C1_UpdateRule ==
    Constructed =>
        \A state \in States, action \in Actions, next_state \in States,
           legal \in ActionLists, o \in Outcomes :
            LET reward == o[1]
                done == o[2]
                r == update(Self, state, action, reward, next_state, legal,
                            done)
                current == Lookup(q_table, state, action)
                M == MaxValue(q_table, next_state, Range(legal))
                target == IF done THEN reward
                          ELSE reward + FMul(discount_factor, M)
                stored == r.self.q_table[state][action]
            IN  /\ r.error = None
                /\ stored = current + FMul(learning_rate, target - current)
                /\ (learning_rate = Unit \div 10 /\ reward = 10 * Unit
                    /\ done /\ current = 0) => stored = Unit

\* A terminal update of the example's agent has given (S0, A) the value 1.0,
\* and a second update, of (S1, A) with reward -1.0, has read it as the
\* greatest value of the next state: 0.1 * (-1.0 + 0.95 * 1.0) = -0.005.
C1_Witness ==
    /\ last.op = "update"
    /\ updates = 2
    /\ learning_rate = Unit \div 10
    /\ Leaves(q_table) = {<<"S0", "A">>, <<"S1", "A">>}
    /\ q_table["S0"]["A"] = Unit
    /\ q_table["S1"]["A"] = -Unit \div 10 + (95 * Unit) \div 1000

\* C2: update with done = true ignores next_state and legal_next_actions:
\* from one agent state, the calls with the same state, action and reward
\* and done = true have one outcome, whatever next_state and
\* legal_next_actions are, and no entry of next_state is read or made: the
\* table gains at most the pair (state, action).
C2_DoneIgnoresNext ==
    Constructed =>
        \A state \in States, action \in Actions, o \in Outcomes :
            LET outcomes ==
                    {update(Self, state, action, o[1], next_state, legal,
                            TRUE) :
                        next_state \in States, legal \in ActionLists}
            IN  /\ Cardinality(outcomes) = 1
                /\ \A r \in outcomes :
                    Leaves(r.self.q_table) =
                        Leaves(q_table) \cup {<<state, action>>}

\* A terminal update has been made and has left the other state untouched.
C2_Witness ==
    /\ last.op = "update"
    /\ updates = 1
    /\ Leaves(q_table) = {<<"S0", "A">>}
    /\ q_table["S0"]["A"] = Unit

\* C3: for a pair never inserted, get_value returns 0.0 and makes the entry:
\* the table has exactly one leaf more, a repeated call returns the stored
\* value and leaves the table as it is, and no other entry changes.
C3_Materialize ==
    Constructed =>
        \A state \in States, action \in Actions :
            <<state, action>> \notin Leaves(q_table) =>
                LET r == get_q_value(Self, state, action)
                    again == get_q_value(r.self, state, action)
                IN  /\ r.ret = 0
                    /\ Leaves(r.self.q_table) =
                           Leaves(q_table) \cup {<<state, action>>}
                    /\ Cardinality(Leaves(r.self.q_table)) =
                           Cardinality(Leaves(q_table)) + 1
                    /\ again.self = r.self
                    /\ again.ret = r.self.q_table[state][action]
                    /\ \A p \in Leaves(q_table) :
                           r.self.q_table[p[1]][p[2]] = q_table[p[1]][p[2]]

\* get_q_value has made the entry (S1, B), beside an entry with a value.
C3_Witness ==
    /\ last.op = "get_q_value"
    /\ updates = 1
    /\ Leaves(q_table) = {<<"S0", "A">>, <<"S1", "B">>}
    /\ q_table["S0"]["A"] # 0
    /\ q_table["S1"]["B"] = 0

\* C4: best_action(state, legal_actions) returns None for no legal action
\* and leaves the table untouched; otherwise every result is a legal action
\* whose value is the greatest over the legal actions (unseen pairs counting
\* 0.0), every action tied at the greatest value is a possible result, and
\* after the call every (state, a), a legal, is in the table.
C4_BestAction ==
    Constructed =>
        \A state \in States, legal \in ActionLists :
            LET best == MaxValue(q_table, state, Range(legal))
                results == {get_best_action(Self, state, legal, k) :
                                k \in RandomDraws}
            IN  IF legal = <<>>
                THEN results = {Return(Self, None)}
                ELSE /\ \A r \in results :
                        /\ r.error = None
                        /\ r.ret \in Range(legal)
                        /\ Lookup(q_table, state, r.ret) = best
                        /\ Leaves(r.self.q_table) =
                               Leaves(q_table)
                                   \cup {<<state, a>> : a \in Range(legal)}
                     /\ \A a \in Range(legal) :
                            Lookup(q_table, state, a) = best =>
                                \E r \in results : r.ret = a

\* get_best_action has been called where S0 has two actions of different
\* values and S1 two actions tied.
C4_Witness ==
    /\ last.op = "get_best_action"
    /\ Leaves(q_table) = States \X Actions
    /\ q_table["S0"]["A"] > q_table["S0"]["B"]
    /\ q_table["S1"]["A"] = q_table["S1"]["B"]

\* C5: for legal actions, choose_action with epsilon = 1.0 explores on every
\* sample: the result is the drawn member of legal_actions and the table is
\* neither read nor changed; with epsilon = 0.0 it is best_action on every
\* sample, an action of the greatest value; for no legal action it returns
\* None and raises nothing.
C5_ChooseAction ==
    Constructed =>
        \A state \in States, legal \in ActionLists, u \in RandomSamples,
           k \in RandomDraws :
            LET r == choose_action(Self, state, legal, u, k)
            IN  /\ r.error = None
                /\ legal = <<>> => r = Return(Self, None)
                /\ (legal # <<>> /\ epsilon = Unit) =>
                        /\ r.self = Self
                        /\ r.ret = RandomChoice(legal, k)
                        /\ r.ret \in Range(legal)
                /\ (legal # <<>> /\ epsilon = 0) =>
                        /\ r = get_best_action(Self, state, legal, k)
                        /\ r.ret \in Range(legal)
                        /\ Lookup(q_table, state, r.ret) =
                               MaxValue(q_table, state, Range(legal))

\* The greedy agent has chosen an action, which made entries of the table.
C5_Witness ==
    /\ last.op = "choose_action"
    /\ epsilon = 0
    /\ updates = 0
    /\ Leaves(q_table) = {<<"S0", "A">>, <<"S0", "B">>}

\* C9: within a run (no load) the table only grows: every step keeps every
\* state and every (state, action) entry, so neither count decreases.
C9_TableGrows ==
    [][/\ DOMAIN q_table \subseteq DOMAIN q_table'
       /\ Leaves(q_table) \subseteq Leaves(q_table')
       /\ Cardinality(DOMAIN q_table) <= Cardinality(DOMAIN q_table')
       /\ Cardinality(Leaves(q_table)) <= Cardinality(Leaves(q_table'))]_vars

\* The table has grown to all its entries, two of them updated.
C9_Witness ==
    /\ updates = 2
    /\ Leaves(q_table) = States \X Actions
    /\ q_table["S0"]["A"] # 0
    /\ q_table["S0"]["B"] # 0

\* C10: stats() is a pure read: it leaves the table and the parameters as
\* they are and reports the number of states in the table, the number of
\* (state, action) entries, and epsilon, learning_rate and discount_factor.
C10_StatsPure ==
    Constructed =>
        LET r == get_stats(Self)
        IN  /\ r.error = None
            /\ r.self = Self
            /\ r.ret.num_states_visited = Cardinality(DOMAIN q_table)
            /\ r.ret.total_state_action_pairs =
                   Cardinality(Leaves(q_table))
            /\ r.ret.current_epsilon = epsilon
            /\ r.ret.learning_rate = learning_rate
            /\ r.ret.discount_factor = discount_factor

\* get_stats has been called on a table of two states and three entries.
C10_Witness ==
    /\ last.op = "get_stats"
    /\ Cardinality(DOMAIN q_table) = 2
    /\ Cardinality(Leaves(q_table)) = 3

\* C6, as amended: for an agent constructed with epsilon_decay < 1, under
\* repeated decay_epsilon() calls epsilon never goes below epsilon_min and
\* never increases, once equal to epsilon_min it stays there on every
\* further call, and it eventually stops changing; the value it stops at
\* need not be epsilon_min.
C6_EpsilonFloor ==
    /\ [](Constructed => epsilon >= epsilon_min)
    /\ [][(Constructed /\ epsilon_decay < Unit) =>
            /\ epsilon' <= epsilon
            /\ epsilon = epsilon_min => epsilon' = epsilon_min]_vars
    /\ <>[]((Constructed /\ epsilon_decay < Unit) =>
                \/ epsilon = epsilon_min
                \/ FMul(epsilon, epsilon_decay) = epsilon)

\* decay_epsilon has been called and epsilon has stopped above epsilon_min:
\* its product with epsilon_decay rounds back to it.
C6_Witness ==
    /\ last.op = "decay_epsilon"
    /\ epsilon_decay < Unit
    /\ epsilon > epsilon_min
    /\ FMul(epsilon, epsilon_decay) = epsilon

\* C6, as stated: for an agent constructed with epsilon_decay strictly
\* between 0 and 1, under repeated decay_epsilon() calls epsilon never goes
\* below epsilon_min and eventually equals epsilon_min for good.
C6_ConvergesToFloor ==
    /\ [](Constructed => epsilon >= epsilon_min)
    /\ [](Constructed /\ epsilon_decay < Unit
            => <>[](epsilon = epsilon_min))

\* C7: construction raises exactly when a parameter is outside its domain,
\* and then no attribute of the agent has been assigned; learning_rate = 0
\* is rejected and learning_rate = 1 accepted; a construction that succeeds
\* yields the parameters as given, an empty table and epsilon >= epsilon_min.
C7_Construction ==
    /\ last.op = "none" =>
        \A p \in EdgeAgents :
            LET r == __init__(Self, p.lr, p.g, p.e, p.d, p.m)
                ok == InDomain(p.lr, p.g, p.e, p.d, p.m)
            IN  /\ r.error = (IF ok THEN None ELSE "ValueError")
                /\ ~ok => r.self = Self /\ r.self.attrs = {}
                /\ ok =>
                    /\ r.self.attrs = AllAttrs
                    /\ r.self.q_table = EmptyDict
                    /\ r.self.learning_rate = p.lr
                    /\ r.self.discount_factor = p.g
                    /\ r.self.epsilon = p.e
                    /\ r.self.epsilon_decay = p.d
                    /\ r.self.epsilon_min = p.m
                    /\ r.self.epsilon >= r.self.epsilon_min
                /\ p.lr = 0 => r.error = "ValueError"
                /\ (p.lr = Unit /\ InDomain(Unit \div 2, p.g, p.e, p.d, p.m))
                        => r.error = None
    /\ (last.op = "__init__" /\ last.error # None) => attrs = {}
    /\ (last.op = "__init__" /\ last.error = None) =>
        /\ Constructed
        /\ q_table = EmptyDict
        /\ InDomain(learning_rate, discount_factor, epsilon, epsilon_decay,
                    epsilon_min)

\* A construction has raised, and the agent has no attribute.
C7_Witness ==
    /\ last.op = "__init__"
    /\ last.error = "ValueError"
    /\ attrs = {}

\* C8: load replaces the table and the parameters atomically: on a blob
\* that misses a required field it fails and every field keeps its value
\* from before the call; otherwise all fields take the blob's values.
C8_LoadAtomic ==
    Constructed =>
        \A found \in Found(file) :
            found # <<>> =>
                LET r == load(Self, found)
                IN  IF DOMAIN found[1] # AllAttrs
                    THEN r.error # None /\ r.self = Self
                    ELSE /\ r.error = None
                         /\ \A name \in AllAttrs :
                                r.self[name] = found[1][name]

====
